---- MODULE Spec2Model ----
(***************************************************************************)
(* Model of the sync-excal synchronisation core: the IndexedDB store        *)
(* (lib/storage/db), the Supabase provider (lib/cloud/supabase-provider),   *)
(* the conflict detector (lib/sync/conflict-detector), the sync engine      *)
(* (lib/sync/sync-engine) and the background handlers that drive them.      *)
(*                                                                          *)
(* A handler that runs to completion between two observable points is one   *)
(* action; its sequential body is written as a chain of operators over a    *)
(* "world" record w = [local, remote, conflicts, syncQueue, deviceId,       *)
(* realtimeChannel, log, threw, failed].                                    *)
(* syncAll is split at its awaits so that sweeps interleave with the other  *)
(* handlers.                                                                *)
(***************************************************************************)
EXTENDS Integers, Sequences, FiniteSets, TLC

VARIABLES
    local,        \* db.diagrams : id -> Diagram (partial function)
    remote,       \* Supabase table diagrams : id -> row (partial function)
    conflicts,    \* db.conflicts : local.id -> ConflictDiagram
    syncQueue,    \* db.syncQueue : item id -> SyncQueueItem (partial function)
    settings,     \* db.settings['syncSettings']
    now,          \* Date.now()
    authenticated,\* a Supabase session exists
    syncEngine,   \* background: let syncEngine (0 = null, else the instance)
    engines,      \* the SyncEngine instances created so far: their private fields
    sweep,        \* per instance: the position and locals of its syncAll call
    uploading,    \* processSyncQueue calls suspended at provider.uploadDiagram
    deviceId,     \* db.settings['deviceId']
    realtimeChannel, \* per instance: its provider's channel and undelivered changes
    alarms,       \* chrome.alarms: the names of the alarms that exist
    lastCall      \* history: what the last handler saw and did

vars == <<local, remote, conflicts, syncQueue, settings, now, authenticated,
          syncEngine, engines, sweep, uploading, deviceId, realtimeChannel,
          alarms, lastCall>>

-----------------------------------------------------------------------------
(* Bounds and constants *)

MaxTime == 3
MaxEngines == 2
MaxQueue == 2
MaxUploads == 2
MaxEvents == 1
MaxHandlers == 2

DeletePriority == 10
DefaultPriority == 5
DefaultMaxRetries == 3

Null == -1
NullId == "null"
NoHash == <<"sha256", "">>

Ids == {"x", "y"}
IdOrder == <<"x", "y">>
Payloads == {"p1", "p2"}
ThisDevice == "device_A"
OtherDevice == "device_B"
Strategies == {"manual", "latest", "local", "cloud"}

-----------------------------------------------------------------------------
(* Values *)

\* crypto.calculateHash: SHA-256 of the JSON text, taken as injective on the
\* payloads of the model.
calculateHash(data) == <<"sha256", data>>

compareHashes(hash1, hash2) == hash1 = hash2

\* A value that fails ExcalidrawDataSchema (the empty object has no type).
Malformed == "{}"

\* validators.isValidExcalidrawData: the payloads of the model are scenes that
\* parse.
isValidExcalidrawData(data) == data \in Payloads

\* JavaScript `x || 0` on a number | null.
OrZero(x) == IF x = Null THEN 0 ELSE x

\* JavaScript truthiness of a number | null.
Truthy(x) == x # Null /\ x # 0

Put(f, k, v) == [i \in DOMAIN f \cup {k} |-> IF i = k THEN v ELSE f[i]]

Remove(f, k) == [i \in DOMAIN f \ {k} |-> f[i]]

Restrict(f, S) == [i \in DOMAIN f \cap S |-> f[i]]

EmptyMap == [i \in {} |-> 0]

\* Dexie Table.update / object spread: the fields of `updates` replace those of doc.
Merge(doc, updates) ==
    [f \in DOMAIN doc |-> IF f \in DOMAIN updates THEN updates[f] ELSE doc[f]]

-----------------------------------------------------------------------------
(* Conflict detector *)

detectConflict_AnyDifference(l, cloud, t) ==
    [hasConflict |-> ~compareHashes(l.hash, cloud.hash),
     conflict |-> [local |-> l, cloud |-> cloud, detectedAt |-> t]]

detectConflict(l, cloud, t) ==
    LET localTime == l.localTimestamp
        cloudTime == OrZero(cloud.cloudTimestamp)
        found == [hasConflict |-> TRUE,
                  conflict |-> [local |-> l, cloud |-> cloud, detectedAt |-> t]]
    IN  IF compareHashes(l.hash, cloud.hash)
        THEN [hasConflict |-> FALSE]
        ELSE IF localTime > cloudTime /\ ~compareHashes(l.hash, cloud.hash)
        THEN found
        ELSE IF cloudTime > localTime
                /\ Truthy(l.lastSynced) /\ l.localTimestamp > l.lastSynced
        THEN found
        ELSE [hasConflict |-> FALSE]

resolveConflict_AlwaysLocal(conflict, strategy) == conflict.local

resolveConflict(conflict, strategy) ==
    CASE strategy = "latest" ->
            IF conflict.local.localTimestamp > OrZero(conflict.cloud.cloudTimestamp)
            THEN conflict.local
            ELSE conflict.cloud
      [] strategy = "local" -> conflict.local
      [] strategy = "cloud" -> conflict.cloud
      [] OTHER -> conflict.local

-----------------------------------------------------------------------------
(* Local store (Dexie) *)

NewWorld == [local |-> local, remote |-> remote, conflicts |-> conflicts,
             syncQueue |-> syncQueue, deviceId |-> deviceId,
             realtimeChannel |-> realtimeChannel,
             log |-> <<>>, threw |-> FALSE, failed |-> {}]

Logged(w, what, id) == [w EXCEPT !.log = Append(w.log, <<what, id>>)]

\* Table.put on a store whose key path is 'id': a diagram without an id is
\* refused with a DataError.
saveDiagram(w, d) ==
    IF d.id = NullId
    THEN [w EXCEPT !.threw = TRUE]
    ELSE Logged([w EXCEPT !.local = Put(w.local, d.id, d)], "saveDiagram", d.id)

\* Table.update is a no-op when the key is absent.
updateDiagramMetadata(w, id, updates) ==
    Logged([w EXCEPT !.local = IF id \in DOMAIN w.local
                               THEN Put(w.local, id, Merge(w.local[id], updates))
                               ELSE w.local],
           "updateDiagramMetadata", id)

deleteDiagram(w, id) ==
    Logged([w EXCEPT !.local = Remove(w.local, id)], "deleteDiagram", id)

saveConflict_NotPersisted(w, conflict) ==
    Logged(w, "saveConflict", conflict.local.id)

saveConflict(w, conflict) ==
    Logged([w EXCEPT !.conflicts = Put(w.conflicts, conflict.local.id, conflict)],
           "saveConflict", conflict.local.id)

dbResolveConflict(w, id) ==
    Logged([w EXCEPT !.conflicts = Remove(w.conflicts, id)], "resolveConflict", id)

addToSyncQueue(w, item) == [w EXCEPT !.syncQueue = Put(w.syncQueue, item.id, item)]

removeSyncItem(w, itemId) == [w EXCEPT !.syncQueue = Remove(w.syncQueue, itemId)]

\* Table.toArray: primary-key order.
RECURSIVE InOrder(_, _)
InOrder(order, S) ==
    IF order = <<>> THEN <<>>
    ELSE IF Head(order) \in S THEN <<Head(order)>> \o InOrder(Tail(order), S)
    ELSE InOrder(Tail(order), S)

getAllDiagrams(w) ==
    LET ids == InOrder(IdOrder, DOMAIN w.local)
    IN  [i \in DOMAIN ids |-> w.local[ids[i]]]

\* crypto.generateDeviceId: 16 random bytes, a value no other call returns. The
\* calls of the model are told apart by who makes them: the setupRealtimeSync
\* of the e-th engine, or a handler (ThisDevice).
generateDeviceId(e) ==
    CASE e = 1 -> "device_S1"
      [] e = 2 -> "device_S2"
      [] OTHER -> "device_S3"

\* getDeviceId, run without interruption: the stored id, generated on first use.
getDeviceId(w) ==
    [w EXCEPT !.deviceId = IF w.deviceId = NullId THEN ThisDevice ELSE w.deviceId]

-----------------------------------------------------------------------------
(* Cloud provider (Supabase) *)

\* payload.new of a DELETE change: an object without fields.
NoRow == [id |-> NullId, data |-> "", hash |-> NoHash, device_id |-> NullId,
          updated_at |-> Null]

\* Supabase Realtime: a change of the table reaches every subscribed channel.
\* `by` is not part of the payload: it remembers whose change it was.
Emit(channels, eventType, id, new, by) ==
    [e \in DOMAIN channels |->
        IF channels[e].pc = "subscribed"
        THEN [channels[e] EXCEPT !.events =
                 Append(@, [eventType |-> eventType, id |-> id, new |-> new,
                            by |-> by])]
        ELSE channels[e]]

\* The table after an upsert of row, and the change it announces.
Upsert(w, row, by) ==
    [w EXCEPT !.remote = Put(w.remote, row.id, row),
              !.realtimeChannel =
                  Emit(@, IF row.id \in DOMAIN w.remote THEN "UPDATE" ELSE "INSERT",
                       row.id, row, by)]

\* SupabaseProvider.uploadDiagram: upsert on id; device_id is getDeviceId().
ProviderUploadDiagram(w, d, t) ==
    LET w1 == getDeviceId(w)
    IN  Logged(Upsert(w1, [id |-> d.id, data |-> d.data, hash |-> d.hash,
                           device_id |-> w1.deviceId, updated_at |-> t],
                      "this device"),
               "upload", d.id)

\* The Diagram that downloadDiagram builds from a row.
downloadDiagram(row) ==
    [id |-> row.id, data |-> row.data, hash |-> row.hash,
     localTimestamp |-> row.updated_at, cloudTimestamp |-> row.updated_at,
     cloudId |-> row.id, lastSynced |-> row.updated_at, isSyncing |-> FALSE,
     conflictStatus |-> "none", deviceId |-> row.device_id]

ProviderDeleteDiagram(w, id) ==
    Logged([w EXCEPT !.remote = Remove(w.remote, id),
                     !.realtimeChannel =
                         IF id \in DOMAIN w.remote
                         THEN Emit(@, "DELETE", id, NoRow, "this device")
                         ELSE @],
           "delete", id)

-----------------------------------------------------------------------------
(* Sync engine: per-document operations *)

Throw(w) == [w EXCEPT !.threw = TRUE]

\* uploadDiagram up to its call of provider.uploadDiagram.
uploadStarts(w, d) == updateDiagramMetadata(w, d.id, [isSyncing |-> TRUE])

\* uploadDiagram from the upsert on: it succeeds at time t, or it throws.
uploadReturns_LeavesSyncing(w, d, t, ok) ==
    IF ok
    THEN updateDiagramMetadata(ProviderUploadDiagram(w, d, t), d.id,
             [isSyncing |-> FALSE, lastSynced |-> t, cloudId |-> d.id,
              cloudTimestamp |-> t])
    ELSE Throw(w)

uploadReturns(w, d, t, ok) ==
    IF ok
    THEN updateDiagramMetadata(ProviderUploadDiagram(w, d, t), d.id,
             [isSyncing |-> FALSE, lastSynced |-> t, cloudId |-> d.id,
              cloudTimestamp |-> t])
    ELSE Throw(updateDiagramMetadata(w, d.id, [isSyncing |-> FALSE]))

uploadDiagram(w, d, t, ok) == uploadReturns(uploadStarts(w, d), d, t, ok)

applyCloudDiagram_NotifyOnly(w, d) == Logged(w, "DIAGRAM_UPDATED", d.id)

applyCloudDiagram(w, d) == Logged(saveDiagram(w, d), "DIAGRAM_UPDATED", d.id)

applyResolvedDiagram(w, d, t, ok) ==
    LET w2 == uploadDiagram(saveDiagram(w, d), d, t, ok)
    IN  IF w2.threw THEN w2
        ELSE updateDiagramMetadata(w2, d.id, [conflictStatus |-> "resolved"])

AutoResolves_Always(strategy) == TRUE

\* settings.conflictResolution !== 'manual'
AutoResolves(strategy) == strategy # "manual"

\* The argument as syncDiagram rewrites it before use.
Prepared(w, diagram) ==
    [diagram EXCEPT !.hash = IF diagram.hash = NoHash
                             THEN calculateHash(diagram.data) ELSE diagram.hash,
                    !.deviceId = getDeviceId(w).deviceId]

syncDiagram_AlwaysUploads(w, diagram0, t, strategy, fault) ==
    IF fault = "download" THEN Throw(Logged(getDeviceId(w), "download", diagram0.id))
    ELSE uploadDiagram(Logged(getDeviceId(w), "download", diagram0.id),
                       Prepared(w, diagram0), t, fault # "upload")

syncDiagram(w, diagram0, t, strategy, fault) ==
    LET diagram == Prepared(w, diagram0)
        id == diagram.id
        w0 == Logged(getDeviceId(w), "download", id)
    IN  IF fault = "download" THEN Throw(w0)
        ELSE IF id \in DOMAIN w.remote
        THEN LET cloudDiagram == downloadDiagram(w.remote[id])
                 conflictCheck == detectConflict(diagram, cloudDiagram, t)
             IN  IF conflictCheck.hasConflict
                 THEN LET w1 == Logged(w0, "conflict", id)
                          w2 == saveConflict(w1, conflictCheck.conflict)
                          w3 == updateDiagramMetadata(w2, id,
                                    [conflictStatus |-> "conflict"])
                      IN  IF AutoResolves(strategy)
                          THEN LET resolved ==
                                     resolveConflict(conflictCheck.conflict, strategy)
                                   w4 == applyResolvedDiagram(w3, resolved, t,
                                                              fault # "upload")
                               IN  IF w4.threw THEN w4 ELSE dbResolveConflict(w4, id)
                          ELSE w3
                 ELSE LET w1 == Logged(w0, "noConflict", id)
                      IN  IF diagram.hash # cloudDiagram.hash
                          THEN IF diagram.localTimestamp
                                    > OrZero(cloudDiagram.cloudTimestamp)
                               THEN uploadDiagram(w1, diagram, t, fault # "upload")
                               ELSE applyCloudDiagram(w1, cloudDiagram)
                          ELSE w1
        ELSE uploadDiagram(w0, diagram, t, fault # "upload")

handleCloudUpdate_AlwaysApplies(w, cloudDiagram, t) ==
    applyCloudDiagram(w, cloudDiagram)

\* The callback the engine registers with provider.onSync.
handleCloudUpdate(w, cloudDiagram, t) ==
    LET id == cloudDiagram.id
        conflictCheck == IF id \in DOMAIN w.local
                         THEN detectConflict(w.local[id], cloudDiagram, t)
                         ELSE [hasConflict |-> FALSE]
    IN  IF conflictCheck.hasConflict
        THEN updateDiagramMetadata(
                 saveConflict(Logged(w, "conflict", id), conflictCheck.conflict),
                 id, [conflictStatus |-> "conflict"])
        ELSE applyCloudDiagram(w, cloudDiagram)

-----------------------------------------------------------------------------
(* Sync engine: queue *)

queueSync(w, diagramId, operation, t, itemId, maxRetries) ==
    addToSyncQueue(w, [id |-> itemId, diagramId |-> diagramId,
                       operation |-> operation,
                       priority |-> IF operation = "delete" THEN DeletePriority
                                    ELSE DefaultPriority,
                       retryCount |-> 0, maxRetries |-> maxRetries, addedAt |-> t])

\* The exception is caught: processSyncQueue goes on; w.failed remembers the item.
Handled(w, item) == [w EXCEPT !.threw = FALSE, !.failed = @ \cup {item.id}]

Caught_CountsOnly(w, item, maxRetries) ==
    [Handled(w, item) EXCEPT !.syncQueue[item.id].retryCount = @ + 1]

\* The catch block of processSyncQueue for one item.
Caught(w, item, maxRetries) ==
    IF item.retryCount >= maxRetries
    THEN removeSyncItem(Handled(w, item), item.id)
    ELSE Handled(w, item)

\* syncLogger.info(`Processing sync queue item: ${item.operation} for ...`)
Processing(operation) ==
    CASE operation = "upload" -> "process upload"
      [] operation = "download" -> "process download"
      [] OTHER -> "process delete"

\* The body of the for loop of processSyncQueue for one item.
processItem(w00, item, t, ok, maxRetries) ==
    LET w == Logged(w00, Processing(item.operation), item.diagramId)
    IN  IF item.diagramId \notin DOMAIN w.local
        THEN removeSyncItem(w, item.id)
        ELSE LET diagram == w.local[item.diagramId]
                 w1 == CASE item.operation = "upload" ->
                                uploadDiagram(w, diagram, t, ok)
                         [] item.operation = "download" ->
                                IF ~ok THEN Throw(Logged(w, "download", diagram.id))
                                ELSE IF diagram.id \in DOMAIN w.remote
                                THEN applyCloudDiagram(
                                         Logged(w, "download", diagram.id),
                                         downloadDiagram(w.remote[diagram.id]))
                                ELSE Logged(w, "download", diagram.id)
                         [] OTHER ->
                                IF ~ok THEN Throw(w)
                                ELSE deleteDiagram(
                                         ProviderDeleteDiagram(w, diagram.id),
                                         diagram.id)
             IN  IF w1.threw THEN Caught(w1, item, maxRetries)
                 ELSE removeSyncItem(w1, item.id)

RECURSIVE SortedIds(_)
SortedIds(S) ==
    IF S = {} THEN <<>>
    ELSE LET m == CHOOSE a \in S : \A b \in S : a <= b
         IN  <<m>> \o SortedIds(S \ {m})

\* db.getAllSyncItems: Table.toArray, in primary-key (item id) order.
getAllSyncItems(w) ==
    LET ids == SortedIds(DOMAIN w.syncQueue)
    IN  [i \in DOMAIN ids |-> w.syncQueue[ids[i]]]

RECURSIVE processItems(_, _, _, _, _)
processItems(w, items, t, failIds, maxRetries) ==
    IF items = <<>> THEN w
    ELSE processItems(processItem(w, Head(items), t, Head(items).id \notin failIds,
                                  maxRetries),
                      Tail(items), t, failIds, maxRetries)

processSyncQueue(w, t, failIds, maxRetries) ==
    processItems(w, getAllSyncItems(w), t, failIds, maxRetries)

\* The for loop of processSyncQueue from `items` on, up to its next call of
\* provider.uploadDiagram: the world it leaves and the call it is suspended at.
RECURSIVE QueueRun(_, _, _, _)
QueueRun(w, items, t, maxRetries) ==
    IF items = <<>> THEN [w |-> w, pending |-> <<>>]
    ELSE LET item == Head(items)
         IN  IF item.operation = "upload" /\ item.diagramId \in DOMAIN w.local
             THEN LET w1 == Logged(w, Processing(item.operation), item.diagramId)
                      diagram == w1.local[item.diagramId]
                  IN  [w |-> uploadStarts(w1, diagram),
                       pending |-> <<[diagram |-> diagram, item |-> item,
                                      rest |-> Tail(items), pushed |-> FALSE]>>]
             ELSE QueueRun(processItem(w, item, t, TRUE, maxRetries),
                           Tail(items), t, maxRetries)

-----------------------------------------------------------------------------
(* State *)

QueueIds == 1..MaxQueue

\* `pending` remembers the ids that were in the local store only when the
\* AUTH_STATE_CHANGED handler started the sweep.
NoFrame == [pc |-> "none", localDiagrams |-> <<>>, cloudMetadata |-> <<>>, i |-> 1,
            processed |-> {}, conflicted |-> {}, pending |-> {}]

NewEngine == [syncStatus |-> "idle", syncInProgress |-> FALSE]

\* The provider of a new engine: setupRealtimeSync has been called and waits for
\* getCurrentUser.
\* `handling` holds the handleCloudUpdate calls the callback has started and
\* not awaited; `last` is the diagram of the change delivered last.
NewChannel == [pc |-> "setup", deviceId |-> NullId, events |-> <<>>,
               handling |-> <<>>, last |-> <<>>]

Init ==
    /\ local = EmptyMap
    /\ remote = EmptyMap
    /\ conflicts = EmptyMap
    /\ syncQueue = EmptyMap
    /\ settings = [conflictResolution |-> "manual", maxRetries |-> DefaultMaxRetries]
    /\ now = 1
    /\ authenticated = FALSE
    /\ syncEngine = 0
    /\ engines = <<>>
    /\ sweep = <<>>
    /\ uploading = <<>>
    /\ deviceId = NullId
    /\ realtimeChannel = <<>>
    /\ alarms = {}
    /\ lastCall = [op |-> "load"]

\* No channel holds more than MaxEvents undelivered changes.
Within(channels) == \A e \in DOMAIN channels : Len(channels[e].events) <= MaxEvents

Commit(w) ==
    /\ Within(w.realtimeChannel)
    /\ local' = w.local
    /\ remote' = w.remote
    /\ conflicts' = w.conflicts
    /\ syncQueue' = w.syncQueue
    /\ deviceId' = w.deviceId
    /\ realtimeChannel' = w.realtimeChannel

-----------------------------------------------------------------------------
(* Environment *)

Tick ==
    /\ now < MaxTime
    /\ now' = now + 1
    /\ UNCHANGED <<uploading, deviceId, realtimeChannel>>
    /\ lastCall' = [op |-> "env"]
    /\ UNCHANGED alarms
    /\ UNCHANGED <<local, remote, conflicts, syncQueue, settings, authenticated,
                   syncEngine, engines, sweep>>

\* Another device of the same user writes the row, at time t.
RemoteEdit(id, data, t) ==
    LET w == Upsert(NewWorld, [id |-> id, data |-> data,
                               hash |-> calculateHash(data),
                               device_id |-> OtherDevice, updated_at |-> t],
                    "another device")
    IN
    /\ t \in now..MaxTime
    /\ now' = t
    /\ Within(w.realtimeChannel)
    /\ remote' = w.remote
    /\ realtimeChannel' = w.realtimeChannel
    /\ UNCHANGED <<uploading, deviceId>>
    /\ lastCall' = [op |-> "env"]
    /\ UNCHANGED alarms
    /\ UNCHANGED <<local, conflicts, syncQueue, settings, authenticated,
                   syncEngine, engines, sweep>>

\* Another device of the same user deletes the row.
RemoteDelete(id) ==
    /\ id \in DOMAIN remote
    /\ remote' = Remove(remote, id)
    /\ realtimeChannel' = Emit(realtimeChannel, "DELETE", id, NoRow, "another device")
    /\ Within(realtimeChannel')
    /\ lastCall' = [op |-> "env"]
    /\ UNCHANGED alarms
    /\ UNCHANGED <<local, conflicts, syncQueue, settings, now, authenticated,
                   syncEngine, engines, sweep, uploading, deviceId>>

\* Options page: signIn / signOut change the Supabase session.
Session(a) ==
    /\ authenticated # a
    /\ authenticated' = a
    /\ UNCHANGED <<uploading, deviceId, realtimeChannel>>
    /\ lastCall' = [op |-> "env"]
    /\ UNCHANGED alarms
    /\ UNCHANGED <<local, remote, conflicts, syncQueue, settings, now,
                   syncEngine, engines, sweep>>

\* Options page: saveSyncSettings({conflictResolution}).
saveSyncSettings(strategy) ==
    /\ strategy # settings.conflictResolution
    /\ settings' = [settings EXCEPT !.conflictResolution = strategy]
    /\ UNCHANGED <<uploading, deviceId, realtimeChannel>>
    /\ lastCall' = [op |-> "env"]
    /\ UNCHANGED alarms
    /\ UNCHANGED <<local, remote, conflicts, syncQueue, now, authenticated,
                   syncEngine, engines, sweep>>

-----------------------------------------------------------------------------
(* Background handlers *)

\* JavaScript `x || null` on a number | null.
OrNull(x) == IF Truthy(x) THEN x ELSE Null

\* allDiagrams.find((d) => d.hash === hash)
RECURSIVE FindByHash(_, _)
FindByHash(all, hash) ==
    IF all = <<>> THEN <<>>
    ELSE IF Head(all).hash = hash THEN <<Head(all)>>
    ELSE FindByHash(Tail(all), hash)

\* onMessageType('DIAGRAM_CHANGED'): the diagram the handler builds.
ChangedDiagram(w, diagramId, data, hash, t) ==
    LET existing == IF diagramId \in DOMAIN w.local THEN <<w.local[diagramId]>>
                    ELSE FindByHash(getAllDiagrams(w), hash)
        has == existing # <<>>
    IN  [id |-> IF has THEN existing[1].id ELSE diagramId,
         data |-> data, hash |-> hash, localTimestamp |-> t,
         cloudTimestamp |-> IF has THEN OrNull(existing[1].cloudTimestamp) ELSE Null,
         cloudId |-> IF has THEN existing[1].cloudId ELSE NullId,
         lastSynced |-> IF has THEN OrNull(existing[1].lastSynced) ELSE Null,
         isSyncing |-> FALSE, conflictStatus |-> "none", deviceId |-> w.deviceId]

\* onMessageType('DIAGRAM_CHANGED') with the payload {diagramId, data, hash},
\* received at time t; diagramId = NullId is a payload without the field.
onDiagramChanged(diagramId, data, hash, itemId, failIds, t) ==
    LET w0 == getDeviceId(NewWorld)
        diagram == ChangedDiagram(w0, diagramId, data, hash, t)
        w1 == saveDiagram(w0, diagram)
        syncs == ~w1.threw /\ authenticated /\ syncEngine # 0
        w2 == IF syncs
              THEN processSyncQueue(
                       queueSync(w1, diagram.id, "upload", t, itemId,
                                 settings.maxRetries),
                       t, failIds, settings.maxRetries)
              ELSE w1
    IN  /\ t \in now..MaxTime
        /\ now' = t
        /\ syncs => itemId \notin DOMAIN syncQueue
        /\ syncs => failIds \subseteq DOMAIN syncQueue \cup {itemId}
        /\ ~syncs => (itemId = 1 /\ failIds = {})
        /\ Commit(w2)
        /\ UNCHANGED uploading
        /\ lastCall' = [op |-> "DIAGRAM_CHANGED", id |-> diagram.id,
                        data |-> data, synced |-> syncs,
                        preRemote |-> remote,
                        log |-> w2.log, threw |-> w2.threw, failed |-> w2.failed]
        /\ UNCHANGED alarms
        /\ UNCHANGED <<settings, authenticated, syncEngine, engines, sweep>>

\* The content script's handleDiagramData: the notification carries the hash it
\* calculated from the data.
DiagramChanged(diagramId, data, itemId, failIds, t) ==
    onDiagramChanged(diagramId, data, calculateHash(data), itemId, failIds, t)

\* onMessageType('DIAGRAM_DELETED'), received at time t.
DiagramDeleted(diagramId, itemId, failIds, t) ==
    LET w1 == deleteDiagram(NewWorld, diagramId)
        syncs == syncEngine # 0 /\ authenticated
        w2 == IF syncs
              THEN processSyncQueue(
                       queueSync(w1, diagramId, "delete", t, itemId,
                                 settings.maxRetries),
                       t, failIds, settings.maxRetries)
              ELSE w1
    IN  /\ t \in now..MaxTime
        /\ now' = t
        /\ syncs => itemId \notin DOMAIN syncQueue
        /\ syncs => failIds \subseteq DOMAIN syncQueue \cup {itemId}
        /\ ~syncs => (itemId = 1 /\ failIds = {})
        /\ Commit(w2)
        /\ UNCHANGED uploading
        /\ lastCall' = [op |-> "DIAGRAM_DELETED", id |-> diagramId,
                        preRemote |-> remote,
                        log |-> w2.log, threw |-> w2.threw, failed |-> w2.failed]
        /\ UNCHANGED alarms
        /\ UNCHANGED <<settings, authenticated, syncEngine, engines, sweep>>

\* onMessageType('DIAGRAM_CHANGED') at time t, up to the first upsert request of
\* its processSyncQueue call.
DiagramChangedStarts(diagramId, data, itemId, t, maxUploads) ==
    LET hash == calculateHash(data)
        w0 == getDeviceId(NewWorld)
        diagram == ChangedDiagram(w0, diagramId, data, hash, t)
        w1 == queueSync(saveDiagram(w0, diagram), diagram.id, "upload", t,
                        itemId, settings.maxRetries)
        run == QueueRun(w1, getAllSyncItems(w1), t, settings.maxRetries)
    IN  /\ authenticated
        /\ syncEngine # 0
        /\ itemId \notin DOMAIN syncQueue
        /\ Len(uploading) < maxUploads
        /\ t \in now..MaxTime
        /\ now' = t
        /\ Commit(run.w)
        /\ uploading' = uploading \o run.pending
        /\ lastCall' = [op |-> "DIAGRAM_CHANGED starts", id |-> diagram.id,
                        log |-> run.w.log]
        /\ UNCHANGED alarms
        /\ UNCHANGED <<settings, authenticated, syncEngine, engines, sweep>>

\* The upsert of the k-th suspended call returns (or throws) and its
\* processSyncQueue goes on to its next upsert request or to its end.
UploadReturns(k, ok) ==
    /\ k \in DOMAIN uploading
    /\ ~authenticated => ~ok
    /\ LET u == uploading[k]
           w1 == uploadReturns(NewWorld, u.diagram, now, ok)
           w2 == IF w1.threw THEN Caught(w1, u.item, settings.maxRetries)
                 ELSE removeSyncItem(w1, u.item.id)
           run == QueueRun(w2, u.rest, now, settings.maxRetries)
       IN  /\ Commit(run.w)
           /\ uploading' = SubSeq(uploading, 1, k - 1)
                              \o SubSeq(uploading, k + 1, Len(uploading))
                              \o run.pending
           /\ lastCall' = [op |-> "upload returns", id |-> u.diagram.id,
                           diagram |-> u.diagram, pushed |-> u.pushed,
                           threw |-> ~ok, log |-> run.w.log,
                           item |-> u.item.id, signedOut |-> ~authenticated,
                           rethrown |-> run.w.threw]
    /\ UNCHANGED alarms
    /\ UNCHANGED <<settings, now, authenticated, syncEngine, engines, sweep>>

\* The postgres_changes callback of setupRealtimeSync: does it call the
\* registered callbacks for this change?
Notifies(payload, filter) ==
    /\ payload.new.device_id # filter
    /\ payload.eventType \in {"INSERT", "UPDATE"}

\* Channel e delivers its next change; when the engine's callback runs, the
\* suspended uploads of the same id remember that it arrived meanwhile.
RealtimeChange(e) ==
    /\ e \in DOMAIN realtimeChannel
    /\ realtimeChannel[e].pc = "subscribed"
    /\ realtimeChannel[e].events # <<>>
    /\ authenticated
    /\ LET payload == Head(realtimeChannel[e].events)
           id == payload.id
           w0 == [NewWorld EXCEPT !.realtimeChannel[e].events = Tail(@)]
           cloudDiagram == downloadDiagram(payload.new)
       IN  IF Notifies(payload, realtimeChannel[e].deviceId)
           THEN LET w == handleCloudUpdate(w0, cloudDiagram, now)
                IN  /\ Commit(w)
                    /\ uploading' = [k \in DOMAIN uploading |->
                                         IF uploading[k].diagram.id = id
                                         THEN [uploading[k] EXCEPT !.pushed = TRUE]
                                         ELSE uploading[k]]
                    /\ lastCall' = [op |-> "handleCloudUpdate", id |-> id,
                                    cloud |-> cloudDiagram,
                                    preLocal |-> Restrict(local, {id}),
                                    at |-> now, log |-> w.log,
                                    engine |-> e, eventType |-> payload.eventType,
                                    by |-> payload.by]
           ELSE /\ Commit(w0)
                /\ UNCHANGED uploading
                /\ lastCall' = [op |-> "change dropped", id |-> id,
                                engine |-> e, eventType |-> payload.eventType,
                                by |-> payload.by]
    /\ UNCHANGED alarms
    /\ UNCHANGED <<settings, now, authenticated, syncEngine, engines, sweep>>

\* handleCloudUpdate from the return of `await db.getDiagram` on, `seen` being
\* what that call returned.
handleCloudUpdateResumes(w, seen, cloudDiagram, t) ==
    LET id == cloudDiagram.id
        conflictCheck == IF seen # <<>>
                         THEN detectConflict(seen[1], cloudDiagram, t)
                         ELSE [hasConflict |-> FALSE]
    IN  IF conflictCheck.hasConflict
        THEN updateDiagramMetadata(
                 saveConflict(Logged(w, "conflict", id), conflictCheck.conflict),
                 id, [conflictStatus |-> "conflict"])
        ELSE applyCloudDiagram(w, cloudDiagram)

\* The postgres_changes callback for the next change of channel e: it calls the
\* engine's callback, which starts handleCloudUpdate and is not awaited.
PushArrives(e) ==
    /\ e \in DOMAIN realtimeChannel
    /\ realtimeChannel[e].pc = "subscribed"
    /\ realtimeChannel[e].events # <<>>
    /\ Len(realtimeChannel[e].handling) < MaxHandlers
    /\ authenticated
    /\ LET payload == Head(realtimeChannel[e].events)
           cloudDiagram == downloadDiagram(payload.new)
       IN  /\ realtimeChannel' = [realtimeChannel EXCEPT
                  ![e].events = Tail(@),
                  ![e].handling =
                      IF Notifies(payload, realtimeChannel[e].deviceId)
                      THEN Append(@, [cloud |-> cloudDiagram, pc |-> "getDiagram",
                                      seen |-> <<>>])
                      ELSE @,
                  ![e].last =
                      IF Notifies(payload, realtimeChannel[e].deviceId)
                      THEN <<cloudDiagram>> ELSE @]
           /\ lastCall' = [op |-> "push arrives", id |-> payload.id, engine |-> e]
    /\ UNCHANGED <<local, remote, conflicts, syncQueue, settings, now, authenticated,
                   syncEngine, engines, sweep, uploading, deviceId, alarms>>

\* The k-th suspended handleCloudUpdate call of engine e resumes: from
\* `await db.getDiagram` with the local diagram, then from there to its end.
PushResumes(e, k) ==
    /\ e \in DOMAIN realtimeChannel
    /\ k \in DOMAIN realtimeChannel[e].handling
    /\ LET h == realtimeChannel[e].handling[k]
           id == h.cloud.id
       IN  IF h.pc = "getDiagram"
           THEN /\ realtimeChannel' = [realtimeChannel EXCEPT
                       ![e].handling[k] =
                           [h EXCEPT !.pc = "decide",
                                     !.seen = IF id \in DOMAIN local
                                              THEN <<local[id]>> ELSE <<>>]]
                /\ lastCall' = [op |-> "getDiagram returns", id |-> id, engine |-> e]
                /\ UNCHANGED <<local, remote, conflicts, syncQueue, deviceId>>
           ELSE LET handling == realtimeChannel[e].handling
                    w0 == [NewWorld EXCEPT !.realtimeChannel[e].handling =
                               SubSeq(handling, 1, k - 1)
                                   \o SubSeq(handling, k + 1, Len(handling))]
                    w == handleCloudUpdateResumes(w0, h.seen, h.cloud, now)
                IN  /\ Commit(w)
                    /\ lastCall' = [op |-> "handleCloudUpdate returns", id |-> id,
                                    engine |-> e, cloud |-> h.cloud, log |-> w.log]
    /\ UNCHANGED <<settings, now, authenticated, syncEngine, engines, sweep,
                   uploading, alarms>>

\* setupRealtimeSync of engine e after getCurrentUser: without a user it gives
\* up; with a stored device id it subscribes; without one, getDeviceId has read
\* that there is none and generates one.
SetupRealtimeSync(e) ==
    /\ e \in DOMAIN realtimeChannel
    /\ realtimeChannel[e].pc = "setup"
    /\ realtimeChannel' = [realtimeChannel EXCEPT ![e] =
           IF ~authenticated THEN [@ EXCEPT !.pc = "none"]
           ELSE IF deviceId # NullId
           THEN [@ EXCEPT !.pc = "subscribed", !.deviceId = deviceId]
           ELSE [@ EXCEPT !.pc = "generated", !.deviceId = generateDeviceId(e)]]
    /\ lastCall' = [op |-> "setupRealtimeSync", engine |-> e]
    /\ UNCHANGED alarms
    /\ UNCHANGED <<local, remote, conflicts, syncQueue, settings, now, authenticated,
                   syncEngine, engines, sweep, uploading, deviceId>>

\* getDeviceId of setupRealtimeSync saves the id it generated, and the channel
\* is subscribed with that id as its filter.
SetupSubscribes(e) ==
    /\ e \in DOMAIN realtimeChannel
    /\ realtimeChannel[e].pc = "generated"
    /\ deviceId' = realtimeChannel[e].deviceId
    /\ realtimeChannel' = [realtimeChannel EXCEPT ![e].pc = "subscribed"]
    /\ lastCall' = [op |-> "subscribed", engine |-> e]
    /\ UNCHANGED alarms
    /\ UNCHANGED <<local, remote, conflicts, syncQueue, settings, now, authenticated,
                   syncEngine, engines, sweep, uploading>>

\* SyncEngine.syncDiagram, called on the current engine with a stored diagram.
SyncDiagram(id, fault) ==
    /\ syncEngine # 0
    /\ id \in DOMAIN local
    /\ LET f == IF authenticated THEN fault ELSE "download"
           w == syncDiagram(NewWorld, local[id], now, settings.conflictResolution, f)
       IN  /\ ~authenticated => fault = "download"
           /\ Commit(w)
           /\ UNCHANGED uploading
           /\ lastCall' = [op |-> "syncDiagram", id |-> id,
                           diagram |-> Prepared(NewWorld, local[id]),
                           preLocal |-> Restrict(local, {id}),
                           preRemote |-> Restrict(remote, {id}),
                           preConflicts |-> Restrict(conflicts, {id}),
                           strategy |-> settings.conflictResolution,
                           at |-> now, log |-> w.log, threw |-> w.threw,
                           again |-> /\ lastCall.op = "syncDiagram"
                                     /\ lastCall.id = id
                                     /\ ~lastCall.threw]
    /\ UNCHANGED alarms
    /\ UNCHANGED <<settings, now, authenticated, syncEngine, engines, sweep>>

-----------------------------------------------------------------------------
(* Sync engine: syncAll, one action per await *)

Running(e) == sweep[e].pc \in {"list", "local", "cloud"}

\* The Diagram metadata that listDiagrams builds from a row.
Metadata(row) ==
    LET d == downloadDiagram(row) IN [f \in DOMAIN d \ {"data"} |-> d[f]]

\* order('updated_at', {ascending: false}): any order the database may return.
ListOrders(rows) ==
    {s \in [1..Cardinality(DOMAIN rows) -> DOMAIN rows] :
        /\ \A a, b \in DOMAIN s : a # b => s[a] # s[b]
        /\ \A a, b \in DOMAIN s :
              a < b => rows[s[a]].updated_at >= rows[s[b]].updated_at}

SeqIds(list) == {list[k].id : k \in DOMAIN list}

Entry(list, id) == list[CHOOSE k \in DOMAIN list : list[k].id = id]

\* The first statements of syncAll, up to its first await.
Started(e) ==
    /\ engines' = [engines EXCEPT ![e] = [syncStatus |-> "syncing",
                                          syncInProgress |-> TRUE]]
    /\ sweep' = [sweep EXCEPT ![e] = [NoFrame EXCEPT !.pc = "list"]]

\* The catch and finally blocks of syncAll.
Aborted(e, frame) ==
    /\ engines' = [engines EXCEPT ![e] = [syncStatus |-> "error",
                                          syncInProgress |-> FALSE]]
    /\ sweep' = [sweep EXCEPT ![e] = [frame EXCEPT !.pc = "failed"]]

\* chrome.alarms 'periodic-sync' and SYNC_NOW: syncAll on the current engine.
RequestSync(trigger) ==
    /\ trigger = "periodic-sync" => trigger \in alarms
    /\ syncEngine # 0
    /\ IF engines[syncEngine].syncInProgress
       THEN UNCHANGED <<engines, sweep>>
       ELSE Started(syncEngine)
    /\ UNCHANGED <<uploading, deviceId, realtimeChannel>>
    /\ lastCall' = [op |-> "syncAll", trigger |-> trigger, engine |-> syncEngine,
                    rejected |-> engines[syncEngine].syncInProgress]
    /\ UNCHANGED alarms
    /\ UNCHANGED <<local, remote, conflicts, syncQueue, settings, now,
                   authenticated, syncEngine>>

SyncAllList(e, ok) ==
    /\ e \in DOMAIN sweep
    /\ sweep[e].pc = "list"
    /\ ~authenticated => ~ok
    /\ IF ok
       THEN \E order \in ListOrders(remote) :
               /\ sweep' = [sweep EXCEPT ![e] =
                     [@ EXCEPT !.pc = IF local = EmptyMap THEN "cloud" ELSE "local",
                               !.localDiagrams = getAllDiagrams(NewWorld),
                               !.cloudMetadata =
                                   [k \in DOMAIN order |-> Metadata(remote[order[k]])]]]
               /\ UNCHANGED engines
       ELSE Aborted(e, sweep[e])
    /\ UNCHANGED <<uploading, deviceId, realtimeChannel>>
    /\ lastCall' = [op |-> "syncAllList", engine |-> e, threw |-> ~ok]
    /\ UNCHANGED alarms
    /\ UNCHANGED <<local, remote, conflicts, syncQueue, settings, now,
                   authenticated, syncEngine>>

syncAllLocal_SkipsUpload(w, l, cloudMetadata, t, fault) == w

\* One iteration of the first loop of syncAll.
syncAllLocal(w, l, cloudMetadata, t, fault) ==
    IF l.id \notin SeqIds(cloudMetadata)
    THEN uploadDiagram(w, l, t, fault # "upload")
    ELSE LET cloud == Entry(cloudMetadata, l.id)
         IN  IF l.hash # cloud.hash
             THEN LET w0 == Logged(w, "download", l.id)
                  IN  IF fault = "download" THEN Throw(w0)
                      ELSE IF l.id \in DOMAIN w.remote
                      THEN LET cloudFull == downloadDiagram(w.remote[l.id])
                               conflictCheck == detectConflict(l, cloudFull, t)
                           IN  IF ~conflictCheck.hasConflict
                               THEN IF l.localTimestamp > OrZero(cloud.cloudTimestamp)
                                    THEN uploadDiagram(Logged(w0, "noConflict", l.id),
                                                       l, t, fault # "upload")
                                    ELSE applyCloudDiagram(
                                             Logged(w0, "noConflict", l.id), cloudFull)
                               ELSE Logged(w0, "conflict", l.id)
                      ELSE w0
             ELSE w

SyncAllLocal(e, fault) ==
    /\ e \in DOMAIN sweep
    /\ sweep[e].pc = "local"
    /\ ~authenticated => fault = "download"
    /\ LET fr == sweep[e]
           l == fr.localDiagrams[fr.i]
           w == syncAllLocal(NewWorld, l, fr.cloudMetadata, now,
                             IF authenticated \/ fault = "none" THEN fault
                             ELSE "upload")
           seen == [fr EXCEPT !.conflicted =
                        IF <<"conflict", l.id>> \in {w.log[k] : k \in DOMAIN w.log}
                        THEN @ \cup {l.id} ELSE @]
       IN  /\ Commit(w)
           /\ IF w.threw
              THEN Aborted(e, seen)
              ELSE /\ sweep' = [sweep EXCEPT ![e] =
                         [seen EXCEPT !.processed = @ \cup {l.id},
                                      !.i = IF fr.i = Len(fr.localDiagrams)
                                            THEN 1 ELSE fr.i + 1,
                                      !.pc = IF fr.i = Len(fr.localDiagrams)
                                             THEN "cloud" ELSE "local"]]
                   /\ UNCHANGED engines
           /\ UNCHANGED uploading
           /\ lastCall' = [op |-> "syncAllLocal", engine |-> e, id |-> l.id,
                           diagram |-> l,
                           preRemote |-> remote, log |-> w.log, threw |-> w.threw]
    /\ UNCHANGED alarms
    /\ UNCHANGED <<settings, now, authenticated, syncEngine>>

syncAllCloud_SkipsDownload(w, cloud, localDiagrams, ok) == w

\* One iteration of the second loop of syncAll.
syncAllCloud(w, cloud, localDiagrams, ok) ==
    IF cloud.id \notin SeqIds(localDiagrams)
    THEN LET w0 == Logged(w, "download", cloud.id)
         IN  IF ~ok THEN Throw(w0)
             ELSE IF cloud.id \in DOMAIN w.remote
             THEN applyCloudDiagram(w0, downloadDiagram(w.remote[cloud.id]))
             ELSE w0
    ELSE w

SyncAllCloud(e, ok) ==
    /\ e \in DOMAIN sweep
    /\ sweep[e].pc = "cloud"
    /\ sweep[e].i <= Len(sweep[e].cloudMetadata)
    /\ ~authenticated => ~ok
    /\ LET fr == sweep[e]
           cloud == fr.cloudMetadata[fr.i]
           w == syncAllCloud(NewWorld, cloud, fr.localDiagrams, ok)
       IN  /\ Commit(w)
           /\ IF w.threw
              THEN Aborted(e, fr)
              ELSE /\ sweep' = [sweep EXCEPT ![e] =
                         [fr EXCEPT !.processed = @ \cup {cloud.id}, !.i = fr.i + 1]]
                   /\ UNCHANGED engines
           /\ UNCHANGED uploading
           /\ lastCall' = [op |-> "syncAllCloud", engine |-> e, id |-> cloud.id,
                           preRemote |-> remote, log |-> w.log, threw |-> w.threw]
    /\ UNCHANGED alarms
    /\ UNCHANGED <<settings, now, authenticated, syncEngine>>

SyncAllFinish(e) ==
    /\ e \in DOMAIN sweep
    /\ sweep[e].pc = "cloud"
    /\ sweep[e].i > Len(sweep[e].cloudMetadata)
    /\ engines' = [engines EXCEPT ![e] = [syncStatus |-> "synced",
                                          syncInProgress |-> FALSE]]
    /\ sweep' = [sweep EXCEPT ![e] = [@ EXCEPT !.pc = "done"]]
    /\ UNCHANGED <<uploading, deviceId, realtimeChannel>>
    /\ lastCall' = [op |-> "syncAllFinish", engine |-> e]
    /\ UNCHANGED alarms
    /\ UNCHANGED <<local, remote, conflicts, syncQueue, settings, now,
                   authenticated, syncEngine>>

-----------------------------------------------------------------------------
(* Background: start-up and sign in / sign out *)

\* initialize(): the service worker (re)starts; what was in flight is gone.
Initialize(failIds) ==
    /\ lastCall.op # "initialize"
    /\ IF authenticated
       THEN LET w == processSyncQueue(
                         [NewWorld EXCEPT !.realtimeChannel = <<NewChannel>>],
                         now, failIds, settings.maxRetries)
            IN  /\ Commit(w)
                /\ syncEngine' = 1
                /\ engines' = <<[syncStatus |-> "syncing", syncInProgress |-> TRUE]>>
                /\ sweep' = <<[NoFrame EXCEPT !.pc = "list"]>>
                /\ alarms' = {"periodic-sync"}
       ELSE /\ failIds = {}
            /\ syncEngine' = 0
            /\ engines' = <<>>
            /\ sweep' = <<>>
            /\ realtimeChannel' = <<>>
            /\ UNCHANGED <<local, remote, conflicts, syncQueue, deviceId, alarms>>
    /\ uploading' = <<>>
    /\ lastCall' = [op |-> "initialize", trigger |-> "startup"]
    /\ UNCHANGED <<settings, now, authenticated>>

\* onMessageType('AUTH_STATE_CHANGED')
AuthStateChanged(a, maxEngines) ==
    /\ IF a
       THEN /\ Len(engines) < maxEngines
            /\ syncEngine' = Len(engines) + 1
            /\ IF local # EmptyMap
               THEN /\ engines' = Append(engines, [syncStatus |-> "syncing",
                                                   syncInProgress |-> TRUE])
                    /\ sweep' = Append(sweep,
                          [NoFrame EXCEPT !.pc = "list",
                                          !.pending = DOMAIN local \ DOMAIN remote])
               ELSE /\ engines' = Append(engines, NewEngine)
                    /\ sweep' = Append(sweep, NoFrame)
            /\ realtimeChannel' = Append(realtimeChannel, NewChannel)
            /\ alarms' = {"periodic-sync"}
       ELSE /\ syncEngine # 0
            /\ syncEngine' = 0
            /\ alarms' = {}
            /\ UNCHANGED <<engines, sweep, realtimeChannel>>
    /\ UNCHANGED <<uploading, deviceId>>
    /\ lastCall' = [op |-> "AUTH_STATE_CHANGED", authenticated |-> a,
                    trigger |-> "onAuthStateChanged"]
    /\ UNCHANGED <<local, remote, conflicts, syncQueue, settings, now, authenticated>>

-----------------------------------------------------------------------------
(* Specification *)

Faults == {"none", "download", "upload"}

\* The notifications and remote writes that arrive `ahead` ticks from now.
Environment(ids, itemIds, failSets, ahead) ==
    \/ \E id \in ids, data \in Payloads : RemoteEdit(id, data, now + ahead)
    \/ \E id \in ids, data \in Payloads, itemId \in itemIds, failIds \in failSets :
          DiagramChanged(id, data, itemId, failIds, now + ahead)
    \/ \E a \in BOOLEAN : Session(a)

\* The side panel deletes a diagram.
Deletion(ids, failSets) ==
    \E id \in ids, itemId \in QueueIds, failIds \in failSets :
        DiagramDeleted(id, itemId, failIds, now)

\* Local edits whose uploads stay in flight, at most maxUploads at a time.
Uploads(ids, itemIds, maxUploads, outcomes) ==
    \/ \E id \in ids, data \in Payloads, itemId \in itemIds :
          DiagramChangedStarts(id, data, itemId, now, maxUploads)
    \/ \E k \in 1..maxUploads, ok \in outcomes : UploadReturns(k, ok)

\* What the realtime channels deliver.
Pushes(maxEngines) == \E e \in 1..maxEngines : RealtimeChange(e)

\* The subscription of each engine's provider.
Subscriptions(maxEngines) ==
    \/ \E e \in 1..maxEngines : SetupRealtimeSync(e)
    \/ \E e \in 1..maxEngines : SetupSubscribes(e)

Document(ids) ==
    \/ \E strategy \in Strategies : saveSyncSettings(strategy)
    \/ \E id \in ids, fault \in Faults : SyncDiagram(id, fault)

\* syncAll and what starts it, with at most maxEngines SyncEngine instances
\* created between two starts of the service worker.
Sweep(maxEngines) ==
    \/ \E trigger \in {"periodic-sync", "SYNC_NOW"} : RequestSync(trigger)
    \/ \E e \in 1..maxEngines, ok \in BOOLEAN : SyncAllList(e, ok)
    \/ \E e \in 1..maxEngines, fault \in Faults : SyncAllLocal(e, fault)
    \/ \E e \in 1..maxEngines, ok \in BOOLEAN : SyncAllCloud(e, ok)
    \/ \E e \in 1..maxEngines : SyncAllFinish(e)
    \/ \E failIds \in SUBSET QueueIds : Initialize(failIds)
    \/ \E a \in BOOLEAN : AuthStateChanged(a, maxEngines)

Next ==
    \/ Tick
    \/ Environment(Ids, QueueIds, SUBSET QueueIds, 0)
    \/ \E id \in Ids : RemoteDelete(id)
    \/ Deletion(Ids, SUBSET QueueIds)
    \/ Uploads(Ids, QueueIds, MaxUploads, BOOLEAN)
    \/ Pushes(MaxEngines)
    \/ Subscriptions(MaxEngines)
    \/ Document(Ids)
    \/ Sweep(MaxEngines)

Spec == Init /\ [][Next]_vars

\* The user is signed in and the engine exists and is idle: the state after
\* AUTH_STATE_CHANGED(true) on a fresh install.
InitSignedIn ==
    /\ local = EmptyMap
    /\ remote = EmptyMap
    /\ conflicts = EmptyMap
    /\ syncQueue = EmptyMap
    /\ settings = [conflictResolution |-> "manual", maxRetries |-> DefaultMaxRetries]
    /\ now = 1
    /\ authenticated = TRUE
    /\ syncEngine = 1
    /\ engines = <<NewEngine>>
    /\ sweep = <<NoFrame>>
    /\ uploading = <<>>
    /\ deviceId = NullId
    /\ realtimeChannel = <<NewChannel>>
    /\ alarms = {"periodic-sync"}
    /\ lastCall = [op |-> "AUTH_STATE_CHANGED", authenticated |-> TRUE,
                   trigger |-> "onAuthStateChanged"]

\* The same, once setupRealtimeSync has subscribed the engine's channel.
InitSubscribed ==
    /\ local = EmptyMap
    /\ remote = EmptyMap
    /\ conflicts = EmptyMap
    /\ syncQueue = EmptyMap
    /\ settings = [conflictResolution |-> "manual", maxRetries |-> DefaultMaxRetries]
    /\ now = 1
    /\ authenticated = TRUE
    /\ syncEngine = 1
    /\ engines = <<NewEngine>>
    /\ sweep = <<NoFrame>>
    /\ uploading = <<>>
    /\ deviceId = ThisDevice
    /\ realtimeChannel = <<[NewChannel EXCEPT !.pc = "subscribed",
                                              !.deviceId = ThisDevice]>>
    /\ alarms = {"periodic-sync"}
    /\ lastCall = [op |-> "subscribed", engine |-> 1]

\* A fresh install on which the user has signed in; the background has not
\* heard of it yet.
InitSession ==
    /\ local = EmptyMap
    /\ remote = EmptyMap
    /\ conflicts = EmptyMap
    /\ syncQueue = EmptyMap
    /\ settings = [conflictResolution |-> "manual", maxRetries |-> DefaultMaxRetries]
    /\ now = 1
    /\ authenticated = TRUE
    /\ syncEngine = 0
    /\ engines = <<>>
    /\ sweep = <<>>
    /\ uploading = <<>>
    /\ deviceId = NullId
    /\ realtimeChannel = <<>>
    /\ alarms = {}
    /\ lastCall = [op |-> "load"]

NextDocument == Tick \/ Environment({"x"}, {1}, {{}}, 0) \/ Document({"x"})

SpecDocument == InitSignedIn /\ [][NextDocument]_vars

\* The sync queue with failing operations, over two documents.
NextQueue ==
    \/ \E id \in Ids, data \in Payloads, itemId \in QueueIds,
          failIds \in SUBSET QueueIds :
              DiagramChanged(id, data, itemId, failIds, now)
    \/ Deletion(Ids, SUBSET QueueIds)

SpecQueue == InitSignedIn /\ [][NextQueue]_vars

\* One document, edited here and on another device, with uploads in flight.
NextRace ==
    \/ Tick
    \/ \E data \in Payloads : RemoteEdit("x", data, now)
    \/ Uploads({"x"}, {1}, 1, {TRUE})
    \/ Pushes(1)

SpecRace == InitSubscribed /\ [][NextRace]_vars

\* One document edited again while its upload is in flight.
NextReentry == Uploads({"x"}, QueueIds, MaxUploads, BOOLEAN)

SpecReentry == InitSignedIn /\ [][NextReentry]_vars

\* One document whose uploads are in flight while the session comes and goes.
NextExpiry ==
    \/ Tick
    \/ \E a \in BOOLEAN : Session(a)
    \/ Uploads({"x"}, QueueIds, 1, BOOLEAN)

SpecExpiry == InitSignedIn /\ [][NextExpiry]_vars

\* The realtime channels of the engines, with one document changed here and on
\* another device.
NextRealtime ==
    \/ \E a \in BOOLEAN : AuthStateChanged(a, MaxEngines)
    \/ Subscriptions(MaxEngines)
    \/ \E data \in Payloads : RemoteEdit("x", data, now)
    \/ RemoteDelete("x")
    \/ \E data \in Payloads : DiagramChanged("x", data, 1, {}, now)
    \/ Deletion({"x"}, {{}})
    \/ Pushes(MaxEngines)

SpecRealtime == InitSession /\ [][NextRealtime]_vars

\* Sweeps of one engine over two documents.
\* What a DIAGRAM_CHANGED message can carry: any data, any hash, an id or none.
Notifications(ids) ==
    \E id \in ids, data \in Payloads \cup {Malformed}, hashed \in Payloads :
        onDiagramChanged(id, data, calculateHash(hashed), 1, {}, now)

\* Change notifications in every state of the session and of the engine.
NextIngest ==
    \/ Tick
    \/ \E a \in BOOLEAN : Session(a)
    \/ \E a \in BOOLEAN : AuthStateChanged(a, 1)
    \/ Notifications({"x", NullId})

SpecIngest == Init /\ [][NextIngest]_vars

NextSweep == Environment(Ids, {1}, {{}}, 1) \/ Sweep(1)

SpecSweep == Init /\ [][NextSweep]_vars

\* Sweeps of several engines over one document.
\* One diagram, with remote writes and local edits arriving at any time between
\* the steps of a sweep.
NextStale ==
    \/ Tick
    \/ Environment({"x"}, {1}, {{}}, 0)
    \/ Initialize({})
    \/ \E ok \in BOOLEAN : SyncAllList(1, ok)
    \/ \E fault \in Faults : SyncAllLocal(1, fault)
    \/ \E ok \in BOOLEAN : SyncAllCloud(1, ok)
    \/ SyncAllFinish(1)

SpecStale == Init /\ [][NextStale]_vars

\* Changes of one diagram by another device, each handled by a handleCloudUpdate
\* call that suspends at its await.
NextPushes ==
    \/ Tick
    \/ \E data \in Payloads : RemoteEdit("x", data, now)
    \/ PushArrives(1)
    \/ \E k \in 1..MaxHandlers : PushResumes(1, k)

SpecPushes == InitSubscribed /\ [][NextPushes]_vars

\* syncDiagram on one diagram under the manual strategy: the settings are read
\* only after a conflict has been reported.
NextCompare ==
    \/ Tick
    \/ Environment({"x"}, {1}, {{}}, 0)
    \/ \E fault \in Faults : SyncDiagram("x", fault)

SpecCompare == InitSignedIn /\ [][NextCompare]_vars

NextEngines == Environment({"x"}, {1}, {{}}, 1) \/ Sweep(MaxEngines)

SpecEngines == Init /\ [][NextEngines]_vars

-----------------------------------------------------------------------------
(* The conflict detector on its own: every pair of documents within the bounds *)

Timestamps == 1..MaxTime

DocumentOf(id, data, localTimestamp, cloudTimestamp, lastSynced, device) ==
    [id |-> id, data |-> data, hash |-> calculateHash(data),
     localTimestamp |-> localTimestamp, cloudTimestamp |-> cloudTimestamp,
     cloudId |-> IF cloudTimestamp = Null THEN NullId ELSE id,
     lastSynced |-> lastSynced, isSyncing |-> FALSE, conflictStatus |-> "none",
     deviceId |-> device]

DetectLocals ==
    {DocumentOf("x", data, lt, ls, ls, ThisDevice) :
        data \in Payloads, lt \in Timestamps, ls \in Timestamps \cup {Null}}

DetectClouds ==
    {DocumentOf("x", data, OrZero(ct), ct, ct, OtherDevice) :
        data \in Payloads, ct \in Timestamps \cup {Null}}

InitDetect ==
    /\ local = EmptyMap
    /\ remote = EmptyMap
    /\ conflicts = EmptyMap
    /\ syncQueue = EmptyMap
    /\ settings = [conflictResolution |-> "manual", maxRetries |-> DefaultMaxRetries]
    /\ now = 1
    /\ authenticated = FALSE
    /\ syncEngine = 0
    /\ engines = <<>>
    /\ sweep = <<>>
    /\ uploading = <<>>
    /\ deviceId = NullId
    /\ realtimeChannel = <<>>
    /\ alarms = {}
    /\ lastCall \in {[op |-> "detectInput", local |-> l, cloud |-> c] :
                        l \in DetectLocals, c \in DetectClouds}

Detect ==
    /\ lastCall.op = "detectInput"
    /\ UNCHANGED <<uploading, deviceId, realtimeChannel>>
    /\ lastCall' = [op |-> "detectConflict", local |-> lastCall.local,
                    cloud |-> lastCall.cloud,
                    result |-> detectConflict(lastCall.local, lastCall.cloud, now)]
    /\ UNCHANGED alarms
    /\ UNCHANGED <<local, remote, conflicts, syncQueue, settings, now, authenticated,
                   syncEngine, engines, sweep>>

SpecDetect == InitDetect /\ [][Detect]_vars

\* A caller hands a reported conflict to resolveConflict with any value of
\* settings.conflictResolution; the function has no throwing path, so the
\* outcome of the call is the diagram it returns.
ResolveConflict(strategy) ==
    /\ lastCall.op = "detectConflict"
    /\ lastCall.result.hasConflict
    /\ lastCall' = [op |-> "resolveConflict", strategy |-> strategy,
                    conflict |-> lastCall.result.conflict,
                    outcome |-> [returned |-> resolveConflict(
                                     lastCall.result.conflict, strategy)]]
    /\ UNCHANGED <<local, remote, conflicts, syncQueue, settings, now, authenticated,
                   syncEngine, engines, sweep, uploading, deviceId,
                   realtimeChannel, alarms>>

NextResolve == Detect \/ \E strategy \in Strategies : ResolveConflict(strategy)

SpecResolve == InitDetect /\ [][NextResolve]_vars

-----------------------------------------------------------------------------
(* What the last syncDiagram call was given *)

Range(seq) == {seq[k] : k \in DOMAIN seq}

SyncDiagramCalled == lastCall.op = "syncDiagram"

\* The call found a remote copy: the (local, remote) pair it compared.
ComparedPair == SyncDiagramCalled /\ lastCall.id \in DOMAIN lastCall.preRemote

PairLocal == lastCall.diagram

PairRemote == downloadDiagram(lastCall.preRemote[lastCall.id])

PairHasConflict ==
    /\ ComparedPair
    /\ ~(lastCall.threw /\ lastCall.log = <<<<"download", lastCall.id>>>>)
    /\ detectConflict(PairLocal, PairRemote, lastCall.at).hasConflict

PairHasNoConflict ==
    /\ ComparedPair
    /\ ~(lastCall.threw /\ lastCall.log = <<<<"download", lastCall.id>>>>)
    /\ ~detectConflict(PairLocal, PairRemote, lastCall.at).hasConflict

ManualConflict == PairHasConflict /\ lastCall.strategy = "manual"

AutoConflict == PairHasConflict /\ lastCall.strategy # "manual"

RemoteUntouched == Restrict(remote, {lastCall.id}) = lastCall.preRemote

LocalUntouched == Restrict(local, {lastCall.id}) = lastCall.preLocal

Uploaded == <<"upload", lastCall.id>> \in Range(lastCall.log)

\* The snapshot resolve(record, strategy) is specified to pick.
Winner ==
    CASE lastCall.strategy = "local" -> PairLocal
      [] lastCall.strategy = "cloud" -> PairRemote
      [] OTHER -> IF PairLocal.localTimestamp > OrZero(PairRemote.cloudTimestamp)
                  THEN PairLocal ELSE PairRemote

-----------------------------------------------------------------------------
(* Claims *)

\* C1 (as stated): when detect reports a conflict for the compared pair and the
\* strategy is manual, syncDiagram leaves the local store's document for the id
\* and the remote store exactly as they were.
C1_ManualConflictMutatesNothing ==
    ManualConflict => LocalUntouched /\ RemoteUntouched

\* C1 (amended): when detect reports a conflict for the compared pair and the
\* strategy is manual, syncDiagram leaves the remote store as it was and changes
\* nothing of the local document but its conflictStatus, which becomes
\* 'conflict': no upload, no local apply of the remote copy.
C1_ManualConflictOnlyMarks ==
    ManualConflict =>
        /\ RemoteUntouched
        /\ ~Uploaded
        /\ <<"saveDiagram", lastCall.id>> \notin Range(lastCall.log)
        /\ lastCall.id \in DOMAIN local
        /\ local[lastCall.id] =
               [lastCall.preLocal[lastCall.id] EXCEPT !.conflictStatus = "conflict"]

C1_Witness ==
    /\ ManualConflict
    /\ lastCall.preLocal[lastCall.id].conflictStatus = "none"
    /\ local[lastCall.id].conflictStatus = "conflict"

\* C3: when syncDiagram detects a conflict under the manual strategy and returns,
\* a ConflictDiagram keyed by the local id holds the two snapshots that were
\* compared, the document is marked conflictStatus = 'conflict', and nothing is
\* written after the mark.
C3_ManualConflictRecorded ==
    (ManualConflict /\ ~lastCall.threw) =>
        /\ lastCall.id \in DOMAIN conflicts
        /\ conflicts[lastCall.id].local = PairLocal
        /\ conflicts[lastCall.id].cloud = PairRemote
        /\ local[lastCall.id].conflictStatus = "conflict"
        /\ lastCall.log = << <<"download", lastCall.id>>, <<"conflict", lastCall.id>>,
                             <<"saveConflict", lastCall.id>>,
                             <<"updateDiagramMetadata", lastCall.id>> >>
        /\ RemoteUntouched

C3_Witness ==
    /\ ManualConflict
    /\ ~lastCall.threw
    /\ lastCall.id \notin DOMAIN lastCall.preConflicts
    /\ lastCall.id \in DOMAIN conflicts

\* C5: when detect reports no conflict for the compared pair and syncDiagram
\* completes, the local and the remote document of the id have equal hashes.
C5_NoConflictConverges ==
    (PairHasNoConflict /\ ~lastCall.threw) =>
        /\ lastCall.id \in DOMAIN local
        /\ lastCall.id \in DOMAIN remote
        /\ local[lastCall.id].hash = remote[lastCall.id].hash

C5_Witness ==
    /\ PairHasNoConflict
    /\ ~lastCall.threw
    /\ PairLocal.hash # PairRemote.hash

\* C6: when syncDiagram detects a conflict under latest, local or cloud and
\* returns, the local store holds the snapshot resolve picks, the remote store
\* holds the same hash, and no ConflictDiagram remains for the id.
C6_AutoResolveAppliesWinner ==
    (AutoConflict /\ ~lastCall.threw) =>
        /\ lastCall.id \in DOMAIN local
        /\ \A f \in {"id", "data", "hash", "localTimestamp", "deviceId"} :
              local[lastCall.id][f] = Winner[f]
        /\ lastCall.id \in DOMAIN remote
        /\ remote[lastCall.id].hash = Winner.hash
        /\ remote[lastCall.id].data = Winner.data
        /\ lastCall.id \notin DOMAIN conflicts

C6_Witness ==
    /\ AutoConflict
    /\ ~lastCall.threw
    /\ lastCall.strategy = "latest"
    /\ Winner = PairRemote
    /\ local[lastCall.id].hash = PairRemote.hash

\* C7: during auto-resolution the remote store is written only if the local
\* snapshot won; when the remote snapshot wins no upload is issued and the remote
\* row is left as it was.
C7_RemoteWinsNoUpload ==
    (AutoConflict /\ ~lastCall.threw /\ Winner = PairRemote) =>
        ~Uploaded /\ RemoteUntouched

\* C2: every upload that replaces an existing remote row by different content
\* is preceded, within the same operation, by a download of that row and a
\* detectConflict decision on it.
C2_UploadsAreCompared ==
    lastCall.op \in {"DIAGRAM_CHANGED", "syncDiagram", "syncAllLocal"} =>
        \A k \in DOMAIN lastCall.log :
            LET id == lastCall.log[k][2]
            IN  ( /\ lastCall.log[k][1] = "upload"
                  /\ id \in DOMAIN lastCall.preRemote
                  /\ id \in DOMAIN remote
                  /\ lastCall.preRemote[id].hash # remote[id].hash )
                => \E i, j \in 1..(k - 1) :
                      /\ i < j
                      /\ lastCall.log[i] = <<"download", id>>
                      /\ lastCall.log[j] \in {<<"conflict", id>>, <<"noConflict", id>>}

\* The decision procedure of the design: equal hashes never conflict; otherwise
\* a local copy newer than the remote one conflicts; otherwise a newer remote
\* copy conflicts when the local copy has edits that were never synced.
ReferenceHasConflict(l, r) ==
    IF l.hash = r.hash THEN FALSE
    ELSE IF l.localTimestamp > OrZero(r.cloudTimestamp) THEN TRUE
    ELSE /\ OrZero(r.cloudTimestamp) > l.localTimestamp
         /\ (l.lastSynced = Null \/ l.localTimestamp > l.lastSynced)

\* C4: detectConflict decides hasConflict as the reference procedure does for
\* every pair of documents, and a reported conflict holds the two inputs
\* unchanged.
C4_DetectMatchesReference ==
    lastCall.op = "detectConflict" =>
        /\ lastCall.result.hasConflict
             = ReferenceHasConflict(lastCall.local, lastCall.cloud)
        /\ lastCall.result.hasConflict =>
              /\ lastCall.result.conflict.local = lastCall.local
              /\ lastCall.result.conflict.cloud = lastCall.cloud

\* C8: within one process at most one syncAll sweep is executing at any time,
\* whatever started it.
C8_OneSweepInFlight ==
    Cardinality({e \in DOMAIN sweep : Running(e)}) <= 1

\* C9: when a sweep completes, every id for which detectConflict reported a
\* conflict during the sweep has a ConflictDiagram and is marked 'conflict'
\* (manual strategy) or has been resolved (the other strategies).
C9_SweepSurfacesConflicts ==
    lastCall.op = "syncAllFinish" =>
        \A id \in sweep[lastCall.engine].conflicted :
            IF settings.conflictResolution = "manual"
            THEN /\ id \in DOMAIN conflicts
                 /\ id \in DOMAIN local
                 /\ local[id].conflictStatus = "conflict"
            ELSE /\ id \notin DOMAIN conflicts
                 /\ id \in DOMAIN local
                 /\ id \in DOMAIN remote
                 /\ local[id].hash = remote[id].hash

\* C10: when processing one document of a sweep fails, every other document of
\* the sweep (local ids and remote-only ids) is still processed.
C10_FailureDoesNotAbortSweep ==
    ( /\ lastCall.op \in {"syncAllLocal", "syncAllCloud"}
      /\ lastCall.threw )
    => LET fr == sweep[lastCall.engine]
       IN  (SeqIds(fr.localDiagrams) \cup SeqIds(fr.cloudMetadata)) \ {lastCall.id}
               \subseteq fr.processed

-----------------------------------------------------------------------------
(* What a sweep enumerated *)

SweepFrame == sweep[lastCall.engine]

\* The ids the sweep found in the local store only, and in the remote store only.
OnlyLocal == SeqIds(SweepFrame.localDiagrams) \ SeqIds(SweepFrame.cloudMetadata)

OnlyRemote == SeqIds(SweepFrame.cloudMetadata) \ SeqIds(SweepFrame.localDiagrams)

\* C11: a sweep that completes has processed every id it found only locally
\* and every id it found only remotely; processing a local-only id leaves the
\* remote store holding the local hash, and processing a remote-only id leaves
\* the remote copy saved in the local store.
C11_SweepTransfersOneSided ==
    /\ (lastCall.op = "syncAllLocal" /\ ~lastCall.threw /\ lastCall.id \in OnlyLocal)
         => /\ lastCall.id \in DOMAIN remote
            /\ remote[lastCall.id].hash
                 = Entry(SweepFrame.localDiagrams, lastCall.id).hash
    /\ (lastCall.op = "syncAllCloud" /\ ~lastCall.threw /\ lastCall.id \in OnlyRemote)
         => /\ lastCall.id \in DOMAIN local
            /\ local[lastCall.id] = downloadDiagram(lastCall.preRemote[lastCall.id])
    /\ lastCall.op = "syncAllFinish"
         => (OnlyLocal \cup OnlyRemote) \subseteq SweepFrame.processed

C11_Witness ==
    /\ lastCall.op = "syncAllFinish"
    /\ OnlyLocal # {}
    /\ OnlyRemote # {}
    /\ \A id \in OnlyLocal \cup OnlyRemote :
          id \in DOMAIN local /\ id \in DOMAIN remote
                               /\ local[id].hash = remote[id].hash

-----------------------------------------------------------------------------
(* The sync queue *)

ProcessedQueue == lastCall.op \in {"DIAGRAM_CHANGED", "DIAGRAM_DELETED"}

\* C12: an item whose execution failed and that is still queued has had its
\* persisted retryCount incremented.
C12_FailureCountsRetry ==
    ProcessedQueue =>
        \A i \in lastCall.failed \cap DOMAIN syncQueue : syncQueue[i].retryCount >= 1

C14_DeleteProcessedFirst ==
    ProcessedQueue =>
        \A j, k \in DOMAIN lastCall.log :
            ( /\ j < k
              /\ lastCall.log[k][1] = "process delete"
              /\ lastCall.log[j][2] # lastCall.log[k][2] )
            => lastCall.log[j][1] \notin {"process upload", "process download"}

-----------------------------------------------------------------------------
(* Realtime updates and uploads in flight *)

PushConflicts ==
    /\ lastCall.op = "handleCloudUpdate"
    /\ lastCall.id \in DOMAIN lastCall.preLocal
    /\ detectConflict(lastCall.preLocal[lastCall.id], lastCall.cloud,
                      lastCall.at).hasConflict

\* C15: when handleCloudUpdate receives a diagram whose local counterpart exists
\* and detectConflict reports a conflict, a ConflictDiagram of the two is saved
\* and the update is not applied: the local data and hash are unchanged and no
\* DIAGRAM_UPDATED is sent.
C15_ConflictingPushNotApplied ==
    PushConflicts =>
        /\ lastCall.id \in DOMAIN conflicts
        /\ conflicts[lastCall.id].local = lastCall.preLocal[lastCall.id]
        /\ conflicts[lastCall.id].cloud = lastCall.cloud
        /\ local[lastCall.id].data = lastCall.preLocal[lastCall.id].data
        /\ local[lastCall.id].hash = lastCall.preLocal[lastCall.id].hash
        /\ <<"DIAGRAM_UPDATED", lastCall.id>> \notin Range(lastCall.log)
        /\ <<"saveDiagram", lastCall.id>> \notin Range(lastCall.log)

C15_Witness ==
    /\ PushConflicts
    /\ lastCall.cloud.hash # local[lastCall.id].hash
    /\ lastCall.id \in DOMAIN conflicts

\* C16: when the upload of a local edit has returned and a realtime update for
\* the same id was handled while it was in flight, either a ConflictDiagram
\* exists for the id or the local and the remote copy have equal hashes.
C16_RaceEndsSafe ==
    ( /\ lastCall.op = "upload returns"
      /\ ~lastCall.threw
      /\ lastCall.pushed
      /\ \A k \in DOMAIN uploading : uploading[k].diagram.id # lastCall.id )
    => \/ lastCall.id \in DOMAIN conflicts
       \/ /\ lastCall.id \in DOMAIN local
          /\ lastCall.id \in DOMAIN remote
          /\ local[lastCall.id].hash = remote[lastCall.id].hash

\* C20: within one engine instance no two uploads of the same document id are
\* in flight at the same time.
C20_OneUploadPerDocument ==
    \A j, k \in DOMAIN uploading :
        j # k => uploading[j].diagram.id # uploading[k].diagram.id

-----------------------------------------------------------------------------
(* Open conflicts, repeated calls, deferred changes *)

\* C17: under the manual strategy a ConflictDiagram that is saved, with its
\* document marked 'conflict', is removed by no step and the mark is cleared
\* by no step.
C17_ConflictStaysOpen ==
    [][ \A id \in DOMAIN conflicts :
           ( /\ settings.conflictResolution = "manual"
             /\ settings'.conflictResolution = "manual"
             /\ id \in DOMAIN local
             /\ local[id].conflictStatus = "conflict" )
           => /\ id \in DOMAIN conflicts'
              /\ id \in DOMAIN local'
              /\ local'[id].conflictStatus = "conflict" ]_vars

\* The writes a call issued: to the local store, the conflict store, the remote.
Writes(log) ==
    {k \in DOMAIN log :
        log[k][1] \in {"saveDiagram", "updateDiagramMetadata", "deleteDiagram",
                       "saveConflict", "resolveConflict", "upload", "delete"}}

\* syncDiagram was called again for the same diagram right after a call that
\* returned, with nothing happening in between.
CalledAgain == SyncDiagramCalled /\ lastCall.again

\* C18 (as stated): the second of two syncDiagram calls in a row for the same
\* diagram issues no write.
C18_SecondSyncWritesNothing ==
    CalledAgain => Writes(lastCall.log) = {}

\* C18 (amended): the second of two syncDiagram calls in a row for the same
\* diagram issues no write, unless the first left a conflict open.
C18_SecondSyncWritesNothingUnlessOpen ==
    (CalledAgain /\ lastCall.id \notin DOMAIN lastCall.preConflicts) =>
        /\ Writes(lastCall.log) = {}
        /\ LocalUntouched
        /\ RemoteUntouched
        /\ Restrict(conflicts, {lastCall.id}) = lastCall.preConflicts

C18_Witness ==
    /\ CalledAgain
    /\ ~lastCall.threw
    /\ lastCall.id \notin DOMAIN lastCall.preConflicts
    /\ lastCall.id \in DOMAIN remote
    /\ local[lastCall.id].hash = remote[lastCall.id].hash

\* C19: a local change that is not uploaded by its DIAGRAM_CHANGED handler
\* leaves an upload item for the diagram in the sync queue.
C19_UnsyncedChangeIsQueued ==
    ( /\ lastCall.op = "DIAGRAM_CHANGED"
      /\ <<"upload", lastCall.id>> \notin Range(lastCall.log) )
    => \E i \in DOMAIN syncQueue :
          /\ syncQueue[i].diagramId = lastCall.id
          /\ syncQueue[i].operation = "upload"

-----------------------------------------------------------------------------
(* Failures that are not transient *)

\* provider.uploadDiagram threw 'User not authenticated': getCurrentUser found
\* no user.
AuthenticationFailed ==
    lastCall.op = "upload returns" /\ lastCall.threw /\ lastCall.signedOut

\* C21: when a queued upload fails with an authentication failure, the failure
\* reaches the caller of processSyncQueue and the item is no longer queued, so
\* that no later processSyncQueue run retries it.
C21_AuthFailureSurfacesAndStops ==
    AuthenticationFailed =>
        /\ lastCall.rethrown
        /\ lastCall.item \notin DOMAIN syncQueue

-----------------------------------------------------------------------------
(* Realtime changes *)

\* A channel has delivered a change: the engine's callback ran, or it did not.
Delivered == lastCall.op \in {"handleCloudUpdate", "change dropped"}

\* C22: every change another device made to a row (insert, update or delete)
\* that a channel delivers makes the engine's callback run.
C22_EveryForeignChangeIsHandled ==
    (Delivered /\ lastCall.by = "another device") => lastCall.op = "handleCloudUpdate"

\* C23: the engine's callback never runs for a change this device made, because
\* the device id its uploads carry is the one the channel's filter compares.
C23_OwnChangesAreFiltered ==
    lastCall.op = "handleCloudUpdate" => lastCall.by = "another device"

-----------------------------------------------------------------------------
(* Sign in and sign out *)

\* The last step sent a request to the table: a list that returned, or an
\* upload, a download or a delete.
RemoteCallIssued ==
    \/ lastCall.op = "syncAllList" /\ ~lastCall.threw
    \/ /\ lastCall.op \in {"syncAllLocal", "syncAllCloud", "DIAGRAM_CHANGED",
                           "DIAGRAM_DELETED", "syncDiagram"}
       /\ \E k \in DOMAIN lastCall.log :
             \/ lastCall.log[k][1] \in {"upload", "delete"}
             \/ lastCall.log[k][1] = "download" /\ ~lastCall.threw

\* C24: once AUTH_STATE_CHANGED(false) has been handled (syncEngine is null),
\* no request is sent to the remote table until AUTH_STATE_CHANGED(true) is
\* handled.
C24_SignedOutIssuesNoRemoteCall ==
    /\ (lastCall.op = "AUTH_STATE_CHANGED" /\ ~lastCall.authenticated) => alarms = {}
    /\ (syncEngine = 0 /\ engines # <<>>) => ~RemoteCallIssued

C26_ChangeIsSavedLocally ==
    lastCall.op = "DIAGRAM_CHANGED" =>
        /\ lastCall.id \in DOMAIN local
        /\ local[lastCall.id].data = lastCall.data
        /\ lastCall.log # <<>>
        /\ lastCall.log[1] = <<"saveDiagram", lastCall.id>>
        /\ ~lastCall.synced =>
              /\ lastCall.log = << <<"saveDiagram", lastCall.id>> >>
              /\ remote = lastCall.preRemote

\* C27: every diagram in the local store has the hash of the data stored with
\* it.
C27_StoredHashIsHashOfData ==
    \A id \in DOMAIN local : local[id].hash = calculateHash(local[id].data)

\* C28: no diagram whose data fails validation is in the local store or in the
\* remote store.
C28_MalformedIsNeverPersisted ==
    /\ \A id \in DOMAIN local : isValidExcalidrawData(local[id].data)
    /\ \A id \in DOMAIN remote : isValidExcalidrawData(remote[id].data)

\* syncDiagram downloaded a remote copy that differs, is newer than the local
\* diagram, and the local diagram has no edit since its last sync.
RemoteOnlyChanged ==
    /\ ComparedPair
    /\ ~(lastCall.threw /\ lastCall.log = <<<<"download", lastCall.id>>>>)
    /\ PairLocal.hash # PairRemote.hash
    /\ PairRemote.cloudTimestamp > PairLocal.localTimestamp
    /\ PairLocal.localTimestamp <= PairLocal.lastSynced

\* C29: when the hashes differ, the remote cloudTimestamp is greater than the
\* local localTimestamp and localTimestamp <= lastSynced, syncDiagram saves no
\* conflict, uploads nothing, leaves the local store holding the remote diagram
\* and sends DIAGRAM_UPDATED.
C29_RemoteOnlyChangeIsApplied ==
    RemoteOnlyChanged =>
        /\ ~lastCall.threw
        /\ \A k \in DOMAIN lastCall.log :
              lastCall.log[k][1] \notin {"conflict", "saveConflict", "upload"}
        /\ Restrict(conflicts, {lastCall.id}) = lastCall.preConflicts
        /\ RemoteUntouched
        /\ lastCall.id \in DOMAIN local
        /\ local[lastCall.id] = PairRemote
        /\ <<"DIAGRAM_UPDATED", lastCall.id>> \in Range(lastCall.log)

C29_Witness ==
    /\ RemoteOnlyChanged
    /\ lastCall.preLocal[lastCall.id].data # PairRemote.data
    /\ lastCall.preLocal[lastCall.id].lastSynced # Null
    /\ local[lastCall.id].data = PairRemote.data
    /\ lastCall.id \notin DOMAIN conflicts

\* syncDiagram found no remote copy of the id.
NoRemoteCopy ==
    /\ SyncDiagramCalled
    /\ lastCall.id \notin DOMAIN lastCall.preRemote
    /\ ~(lastCall.threw /\ lastCall.log = <<<<"download", lastCall.id>>>>)

\* C30: when no remote copy exists syncDiagram uploads the local diagram: the
\* remote store then holds the id with the local hash and the local diagram has
\* isSyncing false with lastSynced and cloudTimestamp set; if the upload fails,
\* isSyncing is false again, lastSynced and cloudTimestamp are as before and the
\* error is thrown.
C30_MissingRemoteIsUploaded ==
    NoRemoteCopy =>
        /\ lastCall.id \in DOMAIN local
        /\ ~local[lastCall.id].isSyncing
        /\ IF Uploaded
           THEN /\ ~lastCall.threw
                /\ lastCall.id \in DOMAIN remote
                /\ remote[lastCall.id].hash = PairLocal.hash
                /\ remote[lastCall.id].hash = local[lastCall.id].hash
                /\ local[lastCall.id].lastSynced = lastCall.at
                /\ local[lastCall.id].cloudTimestamp = lastCall.at
           ELSE /\ lastCall.threw
                /\ <<"updateDiagramMetadata", lastCall.id>> \in Range(lastCall.log)
                /\ local[lastCall.id].lastSynced
                      = lastCall.preLocal[lastCall.id].lastSynced
                /\ local[lastCall.id].cloudTimestamp
                      = lastCall.preLocal[lastCall.id].cloudTimestamp

C30_Witness ==
    /\ NoRemoteCopy
    /\ Uploaded
    /\ lastCall.preLocal[lastCall.id].lastSynced = Null
    /\ local[lastCall.id].lastSynced = lastCall.at
    /\ remote[lastCall.id].hash = local[lastCall.id].hash

\* C31: resolveConflict called with the strategy manual returns no diagram; the
\* call ends in an error.
C31_ManualIsUsageError ==
    (lastCall.op = "resolveConflict" /\ lastCall.strategy = "manual") =>
        "returned" \notin DOMAIN lastCall.outcome

\* handleCloudUpdate found no local diagram of the id, or one that
\* detectConflict does not report.
PushApplies == lastCall.op = "handleCloudUpdate" /\ ~PushConflicts

\* C32: when handleCloudUpdate receives a diagram that has no local counterpart,
\* or one for which detectConflict reports no conflict, the local store
\* afterwards holds the received diagram and DIAGRAM_UPDATED for its id is sent
\* after the save.
C32_PushIsAppliedThenNotified ==
    PushApplies =>
        /\ lastCall.id \in DOMAIN local
        /\ local[lastCall.id] = lastCall.cloud
        /\ lastCall.log = << <<"saveDiagram", lastCall.id>>,
                             <<"DIAGRAM_UPDATED", lastCall.id>> >>

C32_Witness ==
    /\ PushApplies
    /\ lastCall.id \in DOMAIN lastCall.preLocal
    /\ lastCall.preLocal[lastCall.id].data # lastCall.cloud.data
    /\ local[lastCall.id].data = lastCall.cloud.data

\* An uploadDiagram call for the id is suspended in provider.uploadDiagram.
UploadInFlight(id) == \E k \in DOMAIN uploading : uploading[k].diagram.id = id

\* C33: a diagram's isSyncing flag is true exactly while an upload for its id is
\* in flight, and false whenever none is, also after a failed upload.
C33_SyncingIffInFlight ==
    \A id \in DOMAIN local : local[id].isSyncing <=> UploadInFlight(id)

\* C34: after DIAGRAM_DELETED is handled with a session, an engine and no
\* failure, the diagram is in neither the local nor the remote store.
C34_DeleteReachesRemote ==
    ( /\ lastCall.op = "DIAGRAM_DELETED"
      /\ authenticated
      /\ syncEngine # 0
      /\ ~lastCall.threw
      /\ lastCall.failed = {} ) =>
        /\ lastCall.id \notin DOMAIN local
        /\ lastCall.id \notin DOMAIN remote

\* The last syncDiagram or handleCloudUpdate call compared a local diagram that
\* was never synced with a different remote copy of a greater timestamp.
NeverSyncedBehind ==
    /\ \/ ComparedPair /\ ~(lastCall.threw /\ lastCall.log = <<<<"download", lastCall.id>>>>)
       \/ lastCall.op = "handleCloudUpdate"
    /\ lastCall.id \in DOMAIN lastCall.preLocal
    /\ LET l == lastCall.preLocal[lastCall.id]
           cloud == IF SyncDiagramCalled THEN PairRemote ELSE lastCall.cloud
       IN  /\ l.lastSynced = Null
           /\ l.hash # cloud.hash
           /\ cloud.cloudTimestamp > l.localTimestamp

\* C35: a local diagram that was never synced and differs from a remote copy of
\* a greater timestamp is not replaced by syncDiagram or handleCloudUpdate
\* unless a ConflictDiagram is saved for it.
C35_NeverSyncedNotOverwritten ==
    NeverSyncedBehind =>
        \/ /\ lastCall.id \in DOMAIN local
           /\ local[lastCall.id].data = lastCall.preLocal[lastCall.id].data
        \/ <<"saveConflict", lastCall.id>> \in Range(lastCall.log)

\* The last iteration of syncAll's first loop downloaded the remote copy of a
\* listed diagram whose hash differs, and that copy is not older than the local
\* diagram.
SweepDownloadedNewer ==
    /\ lastCall.op = "syncAllLocal"
    /\ lastCall.id \in DOMAIN lastCall.preRemote
    /\ \E k \in DOMAIN lastCall.log :
          lastCall.log[k] \in {<<"noConflict", lastCall.id>>, <<"conflict", lastCall.id>>}
    /\ LET cloudFull == downloadDiagram(lastCall.preRemote[lastCall.id])
       IN  /\ cloudFull.hash # lastCall.diagram.hash
           /\ cloudFull.cloudTimestamp >= lastCall.diagram.localTimestamp

\* C36: in syncAll the local diagram is not uploaded over a downloaded remote
\* copy whose cloudTimestamp is greater than or equal to the local
\* localTimestamp, whatever happened to the row since the listing.
C36_SweepKeepsNewerRemote ==
    SweepDownloadedNewer => <<"upload", lastCall.id>> \notin Range(lastCall.log)

\* The engines whose provider holds a subscribed channel.
LiveSubscriptions ==
    {e \in DOMAIN realtimeChannel : realtimeChannel[e].pc = "subscribed"}

\* C37: at most one engine has a live subscription, and none has one while the
\* background holds no engine (after AUTH_STATE_CHANGED with authenticated
\* false).
C37_OneSubscription ==
    /\ Cardinality(LiveSubscriptions) <= 1
    /\ syncEngine = 0 => LiveSubscriptions = {}

\* Every handleCloudUpdate call that channel 1 started has returned.
PushesHandled ==
    /\ realtimeChannel[1].last # <<>>
    /\ realtimeChannel[1].handling = <<>>

\* C38: when the changes of a diagram have been delivered in order and their
\* handlers have returned, the local store holds the content of the change
\* delivered last, or a ConflictDiagram for that change exists.
C38_LaterPushWins ==
    PushesHandled =>
        LET lastPush == realtimeChannel[1].last[1]
        IN  \/ /\ lastPush.id \in DOMAIN local
               /\ local[lastPush.id].hash = lastPush.hash
            \/ /\ lastPush.id \in DOMAIN conflicts
               /\ conflicts[lastPush.id].cloud = lastPush

\* syncDiagram compared a pair with different hashes and detectConflict
\* reported no conflict.
DiffersWithoutConflict == PairHasNoConflict /\ PairLocal.hash # PairRemote.hash

\* C39: in syncDiagram, whenever detectConflict reports no conflict and the
\* hashes differ, the remote copy is applied locally and nothing is uploaded;
\* the local timestamp is then never greater than the remote one, so the upload
\* branch is not taken.
C39_UploadBranchIsDead ==
    DiffersWithoutConflict =>
        /\ PairLocal.localTimestamp <= OrZero(PairRemote.cloudTimestamp)
        /\ ~Uploaded
        /\ RemoteUntouched
        /\ ~lastCall.threw
        /\ local[lastCall.id] = PairRemote
        /\ <<"DIAGRAM_UPDATED", lastCall.id>> \in Range(lastCall.log)

C39_Witness ==
    /\ DiffersWithoutConflict
    /\ PairLocal.lastSynced = Null
    /\ PairLocal.localTimestamp < PairRemote.cloudTimestamp
    /\ local[lastCall.id].hash = PairRemote.hash

\* The device ids that calls of getDeviceId made by setupRealtimeSync have
\* returned: each is the filter of the channel its provider subscribed.
ReturnedDeviceIds ==
    {realtimeChannel[e].deviceId : e \in LiveSubscriptions}

\* C40: every call of getDeviceId, concurrent first calls included, returns the
\* one identifier that is persisted in the settings: the filter of every
\* subscribed channel is the stored device id, the id that uploads carry.
C40_OneDeviceId ==
    \A returned \in ReturnedDeviceIds : returned = deviceId

====
